---- MODULE Spec2Model ----
(***************************************************************************)
(* Model of herschelhelp_internal/masterlist.py: remove_duplicates and     *)
(* merge_catalogues.                                                       *)
(*                                                                         *)
(* A catalogue is a record [colnames, unit, rows].  Sky positions are      *)
(* integer points <<ra, dec>> on one line of constant declination; the     *)
(* separation of two positions is compared through its square, and the     *)
(* spatial pair finder (SkyCoord.search_around_sky) returns every index    *)
(* pair whose separation is at most the radius.  Row indexes are 1-based   *)
(* here (0-based in the code).                                             *)
(***************************************************************************)
EXTENDS Integers, Sequences, FiniteSets, TLC

\* ---------------------------------------------------------------- bounds
MaxCoord == 2      \* right ascension ranges over 0..MaxCoord, declination is 0
MaxRadius == 1     \* radius ranges over 0..MaxRadius (grid units)
MaxRows == 3       \* rows of the table given to remove_duplicates

Points == (0..MaxCoord) \X {0}
Radii == 0..MaxRadius

None == "None"

\* ----------------------------------------------------- generic helpers
Range(s) == {s[i] : i \in 1..Len(s)}

Reverse(s) == [i \in 1..Len(s) |-> s[Len(s) + 1 - i]]

\* table[mask] / array[mask]: the elements whose mask entry is TRUE, in order
RECURSIVE BoolIndex(_, _)
BoolIndex(s, mask) ==
    IF s = <<>> THEN <<>>
    ELSE IF mask[1] THEN <<s[1]>> \o BoolIndex(Tail(s), Tail(mask))
         ELSE BoolIndex(Tail(s), Tail(mask))

\* array[index_list]: fancy indexing by a sequence of indexes
Take(s, ix) == [k \in 1..Len(ix) |-> s[ix[k]]]

\* Squared separation of two sky positions
Sep2(p, q) == (p[1] - q[1]) * (p[1] - q[1]) + (p[2] - q[2]) * (p[2] - q[2])

Within(p, q, r) == Sep2(p, q) <= r * r

\* SkyCoord(table[ra], table[dec])
SkyCoord(rows) == [i \in 1..Len(rows) |-> <<rows[i].ra, rows[i].dec>>]

\* coords_self.search_around_sky(coords_other, radius): every pair
\* <<index in other, index in self>> within radius (order not part of the set)
search_around_sky(other, self, r) ==
    {p \in (1..Len(other)) \X (1..Len(self)) : Within(other[p[1]], self[p[2]], r)}

\* ------------------------------------------------------ remove_duplicates
SortCols == {None, <<"ra">>}
FlagNames == {"flag_cleaned", "flag_alt"}

ColValue(row, c) == IF c = "ra" THEN row.ra ELSE row.dec

\* row a sorts strictly before row b on the key columns
RECURSIVE KeyLess(_, _, _)
KeyLess(a, b, cols) ==
    IF cols = <<>> THEN FALSE
    ELSE \/ ColValue(a, Head(cols)) < ColValue(b, Head(cols))
         \/ /\ ColValue(a, Head(cols)) = ColValue(b, Head(cols))
            /\ KeyLess(a, b, Tail(cols))

\* table.sort(sort_col): every ascending arrangement of the rows; rows that
\* tie on the keys may come out in any order (the sort kind is the library's)
RECURSIVE SortedRows(_, _, _)
SortedRows(rows, S, cols) ==
    IF S = {} THEN {<<>>}
    ELSE LET firsts == {i \in S : \A j \in S : ~KeyLess(rows[j], rows[i], cols)}
         IN UNION {{<<rows[i]>> \o rest : rest \in SortedRows(rows, S \ {i}, cols)}
                   : i \in firsts}

table_sort(rows, sort_col) ==
    IF sort_col = None THEN {rows}
    ELSE SortedRows(rows, 1..Len(rows), sort_col)

\* mask = (idx1 != idx2)
mask(prs) == {p \in prs : p[1] # p[2]}

\* faulty variant: only the rows that are removed get the flag
flag_idx_mut(prs) == {p[1] : p \in {q \in prs : q[1] > q[2]}}
\* np.unique(idx1): the rows that get the flag
flag_idx(prs) == {p[1] : p \in prs}

\* faulty variant: idx1[idx1 < idx2]
remove_idx_mut(prs) == {p[1] : p \in {q \in prs : q[1] < q[2]}}
\* remove_idx = idx1[idx1 > idx2]
remove_idx(prs) == {p[1] : p \in {q \in prs : q[1] > q[2]}}

\* keep_idx = np.in1d(np.arange(len(table)), remove_idx, invert=True)
keep_idx(n, rem) == [i \in 1..n |-> i \notin rem]

\* table.add_column(Column(name=flag_name, ...)) then the flag assignment
add_flag_column(rows, flag_name, flagged) ==
    [i \in 1..Len(rows) |->
        [rows[i] EXCEPT !.flags =
            [c \in (DOMAIN rows[i].flags) \cup {flag_name} |->
                IF c = flag_name THEN i \in flagged ELSE rows[i].flags[c]]]]

\* The whole function; sorted is the outcome of table.sort(sort_col)
remove_duplicates(table, r, sort_col, sorted, reverse, flag_name) ==
    LET rows0 == IF reverse THEN Reverse(sorted) ELSE sorted
        coords == SkyCoord(rows0)
        prs == mask(search_around_sky(coords, coords, r))
        flagged == add_flag_column(rows0, flag_name, flag_idx(prs))
        keep == keep_idx(Len(rows0), remove_idx(prs))
    IN IF flag_name \in table.colnames
       THEN [status |-> "ValueError"]
       ELSE [status |-> "ok",
             sort_col |-> sort_col,
             reverse |-> reverse,
             flag_name |-> flag_name,
             table |-> [colnames |-> table.colnames \cup {flag_name},
                        unit |-> "deg", rows |-> flagged],
             keep_idx |-> keep,
             ret |-> [colnames |-> table.colnames \cup {flag_name},
                      unit |-> "deg", rows |-> BoolIndex(flagged, keep)]]

\* Caller's tables: raw catalogues without flag columns, ids are the row
\* positions in the caller's table.  A table that already holds the column
\* flag_name makes add_column raise ValueError (duplicate column name).
RawTables ==
    UNION {{[colnames |-> {}, unit |-> u,
             rows |-> [i \in 1..n |-> [id |-> i, ra |-> ps[i][1], dec |-> ps[i][2],
                                       flags |-> <<>>]]]
            : ps \in [1..n -> Points], u \in {"none"}}
           : n \in 0..MaxRows}

NoCall == [status |-> "none"]

\* -------------------------------------------------------- merge_catalogues
MaxRows1 == 2      \* rows of the first catalogue given to merge_catalogues
MaxRows2 == 2      \* rows of the second catalogue
MaxPairs == 3      \* cross pairs within radius in one call

\* d2d of the cross pair p = <<row of cat_1, row of cat_2>>
d2d(p, coords_1, coords_2) == Sep2(coords_1[p[1]], coords_2[p[2]])

\* Counter(idx).items() with count > 1: side is 1 for idx_1, 2 for idx_2
duplicate_associations(prs, side) ==
    {p[side] : p \in {q \in prs : \E o \in prs : o[side] = q[side] /\ o # q}}

\* faulty variant: the duplicate associations only, nothing propagated
toflag_mut(prs) ==
    [idx_1 |-> duplicate_associations(prs, 1),
     idx_2 |-> duplicate_associations(prs, 2)]
\* lines 165-177: the rows of each catalogue to flag
toflag(prs) ==
    LET dup_1 == duplicate_associations(prs, 1)
        dup_2 == duplicate_associations(prs, 2)
        dup_associated_in_idx1 == {p \in prs : p[2] \in dup_2}
        dup_associated_in_idx2 == {p \in prs : p[1] \in dup_1}
    IN [idx_1 |-> dup_1 \cup {p[1] : p \in dup_associated_in_idx1},
        idx_2 |-> dup_2 \cup {p[2] : p \in dup_associated_in_idx2}]

\* faulty variant: flag_merged is overwritten instead of OR-ed
flag_cat_1_mut(cat, flagged) ==
    [colnames |-> cat.colnames \cup {"flag_merged"},
     unit |-> "deg",
     rows |-> [i \in 1..Len(cat.rows) |->
                 [cat.rows[i] EXCEPT !.flags = [c \in {"flag_merged"} |-> i \in flagged]]]]
\* cat_1["flag_merged"] |= in1d(...), or add_column when the column is missing
flag_cat_1(cat, flagged) ==
    [colnames |-> cat.colnames \cup {"flag_merged"},
     unit |-> "deg",
     rows |-> [i \in 1..Len(cat.rows) |->
                 [cat.rows[i] EXCEPT !.flags =
                     [c \in {"flag_merged"} |->
                         IF "flag_merged" \in cat.colnames
                         THEN cat.rows[i].flags["flag_merged"] \/ i \in flagged
                         ELSE i \in flagged]]]]

\* cat_2.add_column(Column(..., name="flag_merged_2"))
flag_cat_2(cat, flagged) ==
    [colnames |-> cat.colnames \cup {"flag_merged_2"},
     unit |-> "deg",
     rows |-> [i \in 1..Len(cat.rows) |->
                 [cat.rows[i] EXCEPT !.flags = [c \in {"flag_merged_2"} |-> i \in flagged]]]]

\* faulty variant: the pairs by decreasing separation
RECURSIVE argsort_mut(_, _, _)
argsort_mut(prs, coords_1, coords_2) ==
    IF prs = {} THEN {<<>>}
    ELSE LET farthest == {p \in prs : \A q \in prs :
                             d2d(p, coords_1, coords_2) >= d2d(q, coords_1, coords_2)}
         IN UNION {{<<p>> \o rest : rest \in argsort_mut(prs \ {p}, coords_1, coords_2)}
                   : p \in farthest}

\* np.argsort(d2d) applied to the pair list: every arrangement of the pairs
\* by increasing separation; pairs of equal separation come in any order
RECURSIVE argsort(_, _, _)
argsort(prs, coords_1, coords_2) ==
    IF prs = {} THEN {<<>>}
    ELSE LET nearest == {p \in prs : \A q \in prs :
                            d2d(p, coords_1, coords_2) <= d2d(q, coords_1, coords_2)}
         IN UNION {{<<p>> \o rest : rest \in argsort(prs \ {p}, coords_1, coords_2)}
                   : p \in nearest}

\* np.unique(a, return_index=True)[1]: the positions of the first occurrences
first_occurrence(a) == {k \in 1..Len(a) : \A l \in 1..(k - 1) : a[l] # a[k]}

\* the elements of a set of integers in increasing order (np.sort)
RECURSIVE np_sort(_)
np_sort(S) ==
    IF S = {} THEN <<>>
    ELSE LET m == CHOOSE x \in S : \A y \in S : x <= y
         IN <<m>> \o np_sort(S \ {m})

\* faulty variant: union1d instead of intersect1d
both_first_idx_mut(a1, a2) == np_sort(first_occurrence(a1) \cup first_occurrence(a2))
\* np.sort(np.intersect1d(first of idx_1, first of idx_2))
both_first_idx(a1, a2) == np_sort(first_occurrence(a1) \cap first_occurrence(a2))

\* faulty variant: no element is found
in1d_mut(a, values) == [k \in 1..Len(a) |-> FALSE]
\* np.in1d(a, values)
in1d(a, values) == [k \in 1..Len(a) |-> a[k] \in Range(values)]

\* faulty variant: nothing is deleted
np_delete_mut(n, match_idx) == np_sort(1..n)
\* np.delete(np.arange(n), match_idx)
np_delete(n, match_idx) == np_sort((1..n) \ Range(match_idx))

\* hstack([cat_1[match_idx_1], cat_2[match_idx_2]]) without cat_2's position
hstack(rows_1, rows_2) ==
    [k \in 1..Len(rows_1) |->
        [srcs |-> rows_1[k].srcs \cup rows_2[k].srcs,
         ra |-> rows_1[k].ra, dec |-> rows_1[k].dec,
         flags |-> [c \in (DOMAIN rows_1[k].flags) \cup (DOMAIN rows_2[k].flags) |->
                      IF c \in DOMAIN rows_1[k].flags THEN rows_1[k].flags[c]
                      ELSE rows_2[k].flags[c]]]]

\* faulty variant: the matched rows are stacked first
vstack_mut(only_1, both, only_2) == both \o only_1 \o only_2
\* vstack([only_in_cat_1, both, only_in_cat_2])
vstack(only_1, both, only_2) == only_1 \o both \o only_2

\* lines 261-267: masked flags become False, flag_merged |= flag_merged_2,
\* flag_merged_2 is removed
combine_flags(rows) ==
    [k \in 1..Len(rows) |->
        LET filled == [c \in {"flag_merged", "flag_merged_2"} |->
                          IF c \in DOMAIN rows[k].flags THEN rows[k].flags[c] ELSE FALSE]
        IN [rows[k] EXCEPT !.flags =
               [c \in {"flag_merged"} |-> filled["flag_merged"] \/ filled["flag_merged_2"]]]]

\* lines 229-269
assemble(c1, c2, m1, m2) ==
    LET unmatched_idx_1 == np_delete(Len(c1.rows), m1)
        unmatched_idx_2 == np_delete(Len(c2.rows), m2)
        only_in_cat_1 == Take(c1.rows, unmatched_idx_1)
        only_in_cat_2 == Take(c2.rows, unmatched_idx_2)
        both_in_cat_1_and_cat_2 == hstack(Take(c1.rows, m1), Take(c2.rows, m2))
    IN [colnames |-> {"flag_merged"},
        unit |-> "deg",
        rows |-> combine_flags(vstack(only_in_cat_1, both_in_cat_1_and_cat_2,
                                      only_in_cat_2))]

\* The payload of a row is srcs, the rows of the current call's two inputs
\* that the row holds: <<1, i>> is row i of cat_1, <<2, j>> row j of cat_2.
\* Catalogues a caller passes as cat_1 in the first call of a fold: no flag
\* column yet
Catalogues1 ==
    UNION {{[colnames |-> {}, unit |-> "none",
             rows |-> [i \in 1..n |-> [srcs |-> {<<1, i>>}, ra |-> ps[i][1],
                                       dec |-> ps[i][2], flags |-> <<>>]]]
            : ps \in [1..n -> Points]}
           : n \in 0..MaxRows1}

\* Catalogues a caller passes as cat_2: no flag column
Catalogues2 ==
    UNION {{[colnames |-> {}, unit |-> "none",
             rows |-> [i \in 1..n |-> [srcs |-> {<<2, i>>}, ra |-> ps[i][1],
                                       dec |-> ps[i][2], flags |-> <<>>]]]
            : ps \in [1..n -> Points]}
           : n \in 0..MaxRows2}

EmptyCat == [colnames |-> {}, unit |-> "none", rows |-> <<>>]

VARIABLES d_pc, T, d_radius, first, second,
          pc, cat_1, cat_2, cat_1_in, cat_2_in, radius, toflag_idx_1, toflag_idx_2,
          idx_1, idx_2, match_idx_1, match_idx_2, merged, folded, sorted_idx

dvars == <<d_pc, T, d_radius, first, second>>
mvars == <<pc, cat_1, cat_2, cat_1_in, cat_2_in, radius, toflag_idx_1, toflag_idx_2,
           idx_1, idx_2, match_idx_1, match_idx_2, merged, folded, sorted_idx>>
vars == <<dvars, mvars>>

DInit ==
    /\ d_pc = "idle"
    /\ T = EmptyCat
    /\ d_radius = 0
    /\ first = NoCall
    /\ second = NoCall

MInit ==
    /\ pc = "idle"
    /\ cat_1 = EmptyCat
    /\ cat_2 = EmptyCat
    /\ cat_1_in = EmptyCat
    /\ cat_2_in = EmptyCat
    /\ radius = 0
    /\ toflag_idx_1 = {}
    /\ toflag_idx_2 = {}
    /\ idx_1 = <<>>
    /\ idx_2 = <<>>
    /\ match_idx_1 = <<>>
    /\ match_idx_2 = <<>>
    /\ sorted_idx = <<>>
    /\ merged = None
    /\ folded = FALSE

Init == DInit /\ MInit

\* first = remove_duplicates(T, radius=r, sort_col, reverse, flag_name)
CallRemoveDuplicates ==
    /\ d_pc = "idle"
    /\ \E t \in RawTables, r \in Radii, sort_col \in SortCols,
          reverse \in BOOLEAN, flag_name \in FlagNames :
         \E sorted \in table_sort(t.rows, sort_col) :
            /\ T' = t
            /\ d_radius' = r
            /\ first' = remove_duplicates(t, r, sort_col, sorted, reverse, flag_name)
    /\ d_pc' = "once"
    /\ UNCHANGED <<second, mvars>>

\* second = remove_duplicates(first, radius=r, sort_col, reverse, flag_name):
\* the function applied to its own output with the same radius and ordering
CallRemoveDuplicatesAgain ==
    /\ d_pc = "once"
    /\ first.status = "ok"
    /\ \E flag_name \in FlagNames :
         \E sorted \in table_sort(first.ret.rows, first.sort_col) :
            second' = remove_duplicates(first.ret, d_radius, first.sort_col, sorted,
                                        first.reverse, flag_name)
    /\ d_pc' = "twice"
    /\ UNCHANGED <<T, d_radius, first, mvars>>

NextDedup == CallRemoveDuplicates \/ CallRemoveDuplicatesAgain

SpecDedup == Init /\ [][NextDedup]_vars

\* lines 145-208 of merge_catalogues(c1, c2, radius=r): the units, the cross
\* pairs, the flags written to both catalogues, the pairs sorted by separation
\* (sorted_idx keeps the sorted pair list the loop starts from, lines 202-203,
\* until the loop is left)
merge_begin(c1, c2, r) ==
    LET coords_1 == SkyCoord(c1.rows)
        coords_2 == SkyCoord(c2.rows)
        prs == search_around_sky(coords_1, coords_2, r)
        fl == toflag(prs)
    IN /\ Cardinality(prs) <= MaxPairs
       /\ cat_1_in' = c1
       /\ cat_2_in' = c2
       /\ radius' = r
       /\ toflag_idx_1' = fl.idx_1
       /\ toflag_idx_2' = fl.idx_2
       /\ cat_1' = flag_cat_1(c1, fl.idx_1)
       /\ cat_2' = flag_cat_2(c2, fl.idx_2)
       /\ \E sorted \in argsort(prs, coords_1, coords_2) :
            /\ idx_1' = [k \in 1..Len(sorted) |-> sorted[k][1]]
            /\ idx_2' = [k \in 1..Len(sorted) |-> sorted[k][2]]
            /\ sorted_idx' = sorted
       /\ match_idx_1' = <<>>
       /\ match_idx_2' = <<>>
       /\ merged' = None
       /\ pc' = "loop"

\* merge_catalogues(cat_1, cat_2, ...) called on two caller's catalogues
CallMergeCatalogues ==
    /\ pc = "idle"
    /\ \E c1 \in Catalogues1, c2 \in Catalogues2, r \in Radii : merge_begin(c1, c2, r)
    /\ folded' = FALSE
    /\ UNCHANGED dvars

\* one pass of the while loop, lines 210-227
MatchRound ==
    /\ pc = "loop"
    /\ Len(idx_1) > 0
    /\ LET both == both_first_idx(idx_1, idx_2)
           new_match_idx_1 == Take(idx_1, both)
           new_match_idx_2 == Take(idx_2, both)
           in_1 == in1d(idx_1, new_match_idx_1)
           in_2 == in1d(idx_2, new_match_idx_2)
           keep == [k \in 1..Len(idx_1) |-> ~(in_1[k] \/ in_2[k])]
       IN /\ match_idx_1' = match_idx_1 \o new_match_idx_1
          /\ match_idx_2' = match_idx_2 \o new_match_idx_2
          /\ idx_1' = BoolIndex(idx_1, keep)
          /\ idx_2' = BoolIndex(idx_2, keep)
    /\ UNCHANGED <<dvars, pc, cat_1, cat_2, cat_1_in, cat_2_in, radius,
                   toflag_idx_1, toflag_idx_2, merged, folded, sorted_idx>>

\* the loop has ended: lines 229-269, the merged catalogue is returned
Assemble ==
    /\ pc = "loop"
    /\ Len(idx_1) = 0
    /\ merged' = assemble(cat_1, cat_2, match_idx_1, match_idx_2)
    /\ pc' = "done"
    /\ sorted_idx' = <<>>
    /\ UNCHANGED <<dvars, cat_1, cat_2, cat_1_in, cat_2_in, radius,
                   toflag_idx_1, toflag_idx_2, idx_1, idx_2,
                   match_idx_1, match_idx_2, folded>>

\* the returned catalogue in the caller's hands: its rows are rows 1, 2, ...
\* of the first input of the call it is passed to next
as_cat_1(cat) ==
    [cat EXCEPT !.rows = [i \in 1..Len(cat.rows) |->
                             [cat.rows[i] EXCEPT !.srcs = {<<1, i>>}]]]

\* the function returns merged: its locals go out of scope and the caller
\* keeps the returned catalogue only
Return ==
    /\ pc = "done"
    /\ pc' = "returned"
    /\ cat_1' = EmptyCat
    /\ cat_2' = EmptyCat
    /\ cat_1_in' = EmptyCat
    /\ cat_2_in' = EmptyCat
    /\ toflag_idx_1' = {}
    /\ toflag_idx_2' = {}
    /\ match_idx_1' = <<>>
    /\ match_idx_2' = <<>>
    /\ merged' = as_cat_1(merged)
    /\ UNCHANGED <<dvars, radius, idx_1, idx_2, folded, sorted_idx>>

\* the caller folds one more catalogue into the previous output, with the
\* radius of the fold: merge_catalogues(merged, cat_2, ..., radius)
FoldNext ==
    /\ pc = "returned"
    /\ Len(merged.rows) <= MaxRows1
    /\ \E c2 \in Catalogues2 : merge_begin(merged, c2, radius)
    /\ folded' = TRUE
    /\ UNCHANGED dvars

NextMerge == CallMergeCatalogues \/ MatchRound \/ Assemble \/ Return \/ FoldNext

SpecMerge == Init /\ [][NextMerge]_vars

\* ------------------------------------------- properties of remove_duplicates
Calls == {c \in {first, second} : c.status = "ok"}

Ids(rows) == {rows[i].id : i \in 1..Len(rows)}

Pos(row) == <<row.ra, row.dec>>

\* some row of lower index lies within radius of row i
LowerWithin(rows, i, r) == \E j \in 1..(i - 1) : Within(Pos(rows[j]), Pos(rows[i]), r)

\* some other row lies within radius of row i
OtherWithin(rows, i, r) ==
    \E j \in 1..Len(rows) : j # i /\ Within(Pos(rows[j]), Pos(rows[i]), r)

IndexOfId(rows, id) == CHOOSE i \in 1..Len(rows) : rows[i].id = id

\* C1: a row of the table (indexed after the optional sort and reverse) is
\* absent from the returned table iff some row of strictly lower index lies
\* within radius of it; the other rows are returned unchanged and in the same
\* relative order.
C1_RemovedIffLowerWithin ==
    \A c \in Calls :
        LET W == c.table.rows
            R == c.ret.rows
        IN /\ \A i \in 1..Len(W) :
                (W[i].id \notin Ids(R)) <=> LowerWithin(W, i, d_radius)
           /\ \A k \in 1..Len(R) : R[k] = W[IndexOfId(W, R[k].id)]
           /\ \A k, l \in 1..Len(R) :
                k < l => IndexOfId(W, R[k].id) < IndexOfId(W, R[l].id)

\* a call on a sorted and reversed table that removed a row and kept two
C1_Witness ==
    /\ first.status = "ok"
    /\ Len(first.ret.rows) = 2
    /\ Len(first.table.rows) = 3
    /\ first.table.rows[1].id = 3
    /\ first.ret.rows[2].id = 1

\* C7: the flag column is True for exactly the rows that are on either side
\* of a non-self pair within radius; a surviving row is flagged iff another
\* row of the input is within radius of it; with no two distinct rows within
\* radius every input row is returned with flag False.
C7_FlagIffPaired ==
    \A c \in Calls :
        LET W == c.table.rows
            R == c.ret.rows
            f == c.flag_name
        IN /\ \A i \in 1..Len(W) : W[i].flags[f] <=> OtherWithin(W, i, d_radius)
           /\ \A k \in 1..Len(R) :
                R[k].flags[f] <=> OtherWithin(W, IndexOfId(W, R[k].id), d_radius)
           /\ (\A i \in 1..Len(W) : ~OtherWithin(W, i, d_radius))
                => /\ Len(R) = Len(W)
                   /\ \A k \in 1..Len(R) : ~R[k].flags[f]

\* a surviving row flagged True next to a surviving row flagged False
C7_Witness ==
    /\ first.status = "ok"
    /\ Len(first.table.rows) = 3
    /\ Len(first.ret.rows) = 2
    /\ first.ret.rows[1].flags[first.flag_name]
    /\ ~first.ret.rows[2].flags[first.flag_name]

\* the duplicate cluster of row i: the rows linked to it by chains of
\* within-radius pairs
RECURSIVE Grow(_, _, _)
Grow(rows, S, r) ==
    LET S2 == S \cup {j \in 1..Len(rows) :
                         \E k \in S : Within(Pos(rows[k]), Pos(rows[j]), r)}
    IN IF S2 = S THEN S ELSE Grow(rows, S2, r)

Cluster(rows, i, r) == Grow(rows, {i}, r)

Lowest(S) == CHOOSE m \in S : \A k \in S : m <= k

Kept(c, S) == {i \in S : c.table.rows[i].id \in Ids(c.ret.rows)}

C5_SecondCallRemovesNothing ==
    second.status # "none"
        => /\ second.status = "ok"
           /\ Len(second.ret.rows) = Len(first.ret.rows)

\* -------------------------------------------- properties of merge_catalogues
\* the cross pairs of the current call, <<row of cat_1, row of cat_2>>
CrossPairs == search_around_sky(SkyCoord(cat_1_in.rows), SkyCoord(cat_2_in.rows), radius)

\* the committed pairs, in the order they were committed
Committed == [k \in 1..Len(match_idx_1) |-> <<match_idx_1[k], match_idx_2[k]>>]

LoopEnded == pc = "done" \/ (pc = "loop" /\ Len(idx_1) = 0)

NoRepeat(a) == \A k, l \in 1..Len(a) : k # l => a[k] # a[l]

\* C2: when the matching loop ends the committed matches form a partial
\* injection: no row of cat_1 and no row of cat_2 is in more than one
\* committed pair.
C2_PartialInjection ==
    LoopEnded => /\ Len(match_idx_1) = Len(match_idx_2)
                 /\ NoRepeat(match_idx_1)
                 /\ NoRepeat(match_idx_2)

\* two rows of each catalogue, three cross pairs within radius, two pairs
\* committed in two rounds (the second one after its rival was deleted)
C2_Witness ==
    /\ pc = "done"
    /\ Cardinality(CrossPairs) = 3
    /\ Len(match_idx_1) = 2
    /\ radius > 0
    /\ d2d(Committed[1], SkyCoord(cat_1_in.rows), SkyCoord(cat_2_in.rows)) = 0
    /\ d2d(Committed[2], SkyCoord(cat_1_in.rows), SkyCoord(cat_2_in.rows)) = 1

Unmatched1 == {i \in 1..Len(cat_1_in.rows) : i \notin Range(match_idx_1)}
Unmatched2 == {j \in 1..Len(cat_2_in.rows) : j \notin Range(match_idx_2)}

Max(a, b) == IF a >= b THEN a ELSE b

\* C3: the number of returned rows is (rows of cat_1 in no committed pair) +
\* (committed pairs) + (rows of cat_2 in no committed pair); it is at most
\* len(cat_1) + len(cat_2) and, when both inputs are non-empty, at least
\* max(len(cat_1), len(cat_2)).
C3_RowConservation ==
    pc = "done" =>
        LET n1 == Len(cat_1_in.rows)
            n2 == Len(cat_2_in.rows)
            n == Len(merged.rows)
        IN /\ n = Cardinality(Unmatched1) + Len(match_idx_1) + Cardinality(Unmatched2)
           /\ n <= n1 + n2
           /\ (n1 > 0 /\ n2 > 0) => n >= Max(n1, n2)

\* one committed pair and one unmatched row on each side
C3_Witness ==
    /\ pc = "done"
    /\ Len(match_idx_1) = 1
    /\ Cardinality(Unmatched1) = 1
    /\ Cardinality(Unmatched2) = 1
    /\ Len(merged.rows) = 3

\* C4: when merge_catalogues returns, the caller's cat_1 and cat_2 have the
\* columns and the values they had before the call.
C4_InputsNotMutated ==
    pc = "done" => (cat_1 = cat_1_in /\ cat_2 = cat_2_in)

\* the rows of the output that hold row i of this call's cat_1
OutputRowsOf(i) == {k \in 1..Len(merged.rows) : <<1, i>> \in merged.rows[k].srcs}

FlagMergedAtStart(i) ==
    "flag_merged" \in cat_1_in.colnames /\ cat_1_in.rows[i].flags["flag_merged"]

\* C6: in every round of a fold, a source whose flag_merged is True at the
\* start of the round has flag_merged True in the round's output, unmatched
\* or matched.
C6_FlagMonotone ==
    pc = "done" =>
        \A i \in 1..Len(cat_1_in.rows) :
            FlagMergedAtStart(i) =>
                /\ OutputRowsOf(i) # {}
                /\ \A k \in OutputRowsOf(i) : merged.rows[k].flags["flag_merged"]

\* second round of a fold: a row flagged by the first round is matched to a
\* row of the new catalogue, neither being ambiguous in this round
C6_Witness ==
    /\ pc = "done"
    /\ folded
    /\ \E k \in 1..Len(match_idx_1) :
          /\ FlagMergedAtStart(match_idx_1[k])
          /\ match_idx_1[k] \notin toflag_idx_1
          /\ match_idx_2[k] \notin toflag_idx_2
    /\ \E i \in Unmatched1 : FlagMergedAtStart(i)

\* the cross pairs of prs that hold row i of cat_1, row j of cat_2
Partners1(prs, i) == {p \in prs : p[1] = i}
Partners2(prs, j) == {p \in prs : p[2] = j}

\* C8: the ambiguity flag of the round is True for a row exactly when the
\* row is in more than one cross pair or is in a cross pair whose other row
\* is in more than one cross pair; cat_1 gets it OR-ed with its previous
\* flag_merged, cat_2 gets it as flag_merged_2.  Stated where the flags have
\* just been written (the loop leaves them alone).
C8_AmbiguityFlag ==
    (pc = "loop" /\ match_idx_1 = <<>>) =>
        LET prs == CrossPairs
        IN /\ \A i \in 1..Len(cat_1_in.rows) :
                /\ (i \in toflag_idx_1) <=>
                      \/ Cardinality(Partners1(prs, i)) > 1
                      \/ \E p \in Partners1(prs, i) :
                            Cardinality(Partners2(prs, p[2])) > 1
                /\ cat_1.rows[i].flags["flag_merged"] <=>
                      (FlagMergedAtStart(i) \/ i \in toflag_idx_1)
           /\ \A j \in 1..Len(cat_2_in.rows) :
                /\ (j \in toflag_idx_2) <=>
                      \/ Cardinality(Partners2(prs, j)) > 1
                      \/ \E p \in Partners2(prs, j) :
                            Cardinality(Partners1(prs, p[1])) > 1
                /\ cat_2.rows[j].flags["flag_merged_2"] <=> (j \in toflag_idx_2)

\* one row of cat_1 near two rows of cat_2: all three are flagged, the rows
\* of cat_2 only because their counterpart is ambiguous; another row of
\* cat_1 in no pair is not flagged
C8_Witness ==
    /\ pc = "loop"
    /\ match_idx_1 = <<>>
    /\ Len(cat_1_in.rows) = 2
    /\ Cardinality(Partners1(CrossPairs, 1)) = 2
    /\ Partners1(CrossPairs, 2) = {}
    /\ toflag_idx_1 = {1}
    /\ toflag_idx_2 = {1, 2}

\* the k-th smallest element of a set of integers
Kth(S, k) == CHOOSE x \in S : Cardinality({y \in S : y < x}) = k - 1

\* the values of a row of the output that holds row i of cat_1 and/or row j
\* of cat_2 (0: none)
OutputRow(i, j) ==
    [srcs |-> (IF i > 0 THEN {<<1, i>>} ELSE {}) \cup (IF j > 0 THEN {<<2, j>>} ELSE {}),
     ra |-> IF i > 0 THEN cat_1_in.rows[i].ra ELSE cat_2_in.rows[j].ra,
     dec |-> IF i > 0 THEN cat_1_in.rows[i].dec ELSE cat_2_in.rows[j].dec,
     flags |-> [c \in {"flag_merged"} |->
                  \/ (i > 0 /\ (FlagMergedAtStart(i) \/ i \in toflag_idx_1))
                  \/ (j > 0 /\ j \in toflag_idx_2)]]

\* C10: the returned table is the rows of cat_1 in no committed pair in
\* their original order, then one row per committed pair in commit order,
\* then the rows of cat_2 in no committed pair in their original order;
\* every row of cat_1 and of cat_2 is held by exactly one output row.
C10_OutputOrder ==
    pc = "done" =>
        LET u1 == Cardinality(Unmatched1)
            m == Len(match_idx_1)
            u2 == Cardinality(Unmatched2)
        IN /\ Len(merged.rows) = u1 + m + u2
           /\ \A k \in 1..u1 : merged.rows[k] = OutputRow(Kth(Unmatched1, k), 0)
           /\ \A k \in 1..m :
                 merged.rows[u1 + k] = OutputRow(match_idx_1[k], match_idx_2[k])
           /\ \A k \in 1..u2 :
                 merged.rows[u1 + m + k] = OutputRow(0, Kth(Unmatched2, k))
           /\ \A i \in 1..Len(cat_1_in.rows) : Cardinality(OutputRowsOf(i)) = 1
           /\ \A j \in 1..Len(cat_2_in.rows) :
                 Cardinality({k \in 1..Len(merged.rows) :
                                 <<2, j>> \in merged.rows[k].srcs}) = 1

\* an unmatched row of cat_1, then a matched row, then an unmatched row of
\* cat_2; the matched row of cat_1 comes before the unmatched one in cat_1
C10_Witness ==
    /\ pc = "done"
    /\ Len(merged.rows) = 3
    /\ merged.rows[1].srcs = {<<1, 2>>}
    /\ merged.rows[2].srcs = {<<1, 1>>, <<2, 2>>}
    /\ merged.rows[3].srcs = {<<2, 1>>}

\* the sequential greedy procedure on a pair list: take the first remaining
\* pair, delete every pair sharing either of its rows, repeat
RECURSIVE Greedy(_)
Greedy(list) ==
    IF list = <<>> THEN {}
    ELSE LET p == list[1]
             Free(q) == q[1] # p[1] /\ q[2] # p[2]
         IN {p} \cup Greedy(SelectSeq(list, Free))

\* the while condition has just failed
LoopExit == pc = "loop" /\ Len(idx_1) = 0

\* C11: for every distance-sorted list of cross pairs, the round-based loop
\* commits exactly the set of pairs that the sequential greedy procedure
\* commits on the same list.
C11_RoundsEqualGreedy ==
    LoopExit => Range(Committed) = Greedy(sorted_idx)

\* a loop that needed two rounds: three pairs, the first round committed
\* one pair only and the pair committed next was last in the sorted list
C11_Witness ==
    /\ LoopExit
    /\ Len(sorted_idx) = 3
    /\ Len(Committed) = 2
    /\ Committed[1] = sorted_idx[1]
    /\ Committed[2] = sorted_idx[3]
    /\ sorted_idx[2][1] = sorted_idx[1][1]

\* C12: in every round in which the remaining pair list is non-empty the
\* first remaining pair is mutually first, so at least one pair is
\* committed, and the remaining list is strictly shorter after the round;
\* the list, being finite, becomes empty after finitely many rounds.
C12_RoundShrinksList ==
    [][pc = "loop" /\ Len(idx_1) > 0 =>
          /\ 1 \in Range(both_first_idx(idx_1, idx_2))
          /\ Len(match_idx_1') > Len(match_idx_1)
          /\ Len(idx_1') < Len(idx_1)
          /\ Len(idx_2') = Len(idx_1')]_vars

\* a first round has committed one pair of three and left one pair for a
\* second round
C12_Witness ==
    /\ pc = "loop"
    /\ Len(sorted_idx) = 3
    /\ Len(match_idx_1) = 1
    /\ Len(idx_1) = 1

\* C13: when the loop has ended, every cross pair that was not committed
\* has one of its rows committed in another pair of smaller or equal
\* separation; no cross pair is left with both rows unmatched; a row of
\* cat_1 whose candidates have no other candidate is matched to a nearest
\* candidate.
C13_MaximalNearestFirst ==
    pc = "done" =>
        LET prs == CrossPairs
            c1 == SkyCoord(cat_1_in.rows)
            c2 == SkyCoord(cat_2_in.rows)
            com == Range(Committed)
        IN /\ com \subseteq prs
           /\ \A p \in prs \ com :
                \E q \in com : /\ q[1] = p[1] \/ q[2] = p[2]
                               /\ d2d(q, c1, c2) <= d2d(p, c1, c2)
           /\ \A p \in prs : p[1] \in Range(match_idx_1) \/ p[2] \in Range(match_idx_2)
           /\ \A a \in 1..Len(cat_1_in.rows) :
                (/\ Partners1(prs, a) # {}
                 /\ \A p \in Partners1(prs, a) : Partners2(prs, p[2]) = {p})
                => \E q \in com : /\ q[1] = a
                                  /\ \A p \in Partners1(prs, a) :
                                        d2d(q, c1, c2) <= d2d(p, c1, c2)

\* a row of cat_1 with a candidate at separation 0 and another one farther
\* away, neither with another candidate: it is matched to the nearer one and
\* the farther pair is left out
C13_Witness ==
    /\ pc = "done"
    /\ Cardinality(Partners1(CrossPairs, 1)) = 2
    /\ Cardinality(CrossPairs) = 2
    /\ Len(Committed) = 1
    /\ d2d(Committed[1], SkyCoord(cat_1_in.rows), SkyCoord(cat_2_in.rows)) = 0
    /\ \E p \in CrossPairs :
          d2d(p, SkyCoord(cat_1_in.rows), SkyCoord(cat_2_in.rows)) > 0

\* C14: the flags of the round agree on the two rows of every cross pair,
\* and a second propagation pass would add no row to either set.
C14_FlagsAgreeOnPairs ==
    (pc = "loop" /\ match_idx_1 = <<>>) =>
        LET prs == CrossPairs
        IN /\ \A p \in prs : (p[1] \in toflag_idx_1) <=> (p[2] \in toflag_idx_2)
           /\ {p[1] : p \in {q \in prs : q[2] \in toflag_idx_2}} \subseteq toflag_idx_1
           /\ {p[2] : p \in {q \in prs : q[1] \in toflag_idx_1}} \subseteq toflag_idx_2

\* two rows of cat_1 near the same row of cat_2: the rows of cat_1 are in
\* one pair each and flagged with their counterpart; the other row of cat_2
\* is in no pair and not flagged
C14_Witness ==
    /\ pc = "loop"
    /\ match_idx_1 = <<>>
    /\ Len(cat_2_in.rows) = 2
    /\ Cardinality(Partners2(CrossPairs, 1)) = 2
    /\ Cardinality(CrossPairs) = 2
    /\ toflag_idx_1 = {1, 2}
    /\ toflag_idx_2 = {1}

====
